---- MODULE Spec2Model ----
(***************************************************************************)
(* Model of src/main.py: the resume-analysis service.                      *)
(*                                                                         *)
(* Two request handlers are modelled, each with the framework step that    *)
(* turns the handler's outcome into the response the caller sees:          *)
(*   POST /analyze-resume   analyze_resume   (response_model=AnalysisResult)*)
(*   POST /download-report  download_report                                *)
(* A request is received, handled, answered and forgotten: nothing of a    *)
(* request outlives it (the program keeps no state between requests).      *)
(*                                                                         *)
(* A Python str is modelled as a sequence of atoms.  An atom is one        *)
(* character of input text ("a", " ", "\n", "P", ...) or one literal       *)
(* markup fragment written in the source ("<br/>", "<b>...", the bullet).  *)
(* Input text never contains markup characters, so an atom of the input    *)
(* is never confused with a fragment the program writes.                   *)
(***************************************************************************)
EXTENDS Integers, Sequences, FiniteSets, TLC

VARIABLES
    pc,          \* position of the request in flight
    route,       \* "none" | "analyze" | "render"
    filename,    \* UploadFile.filename of the analyze request
    file_bytes,  \* uploaded bytes (declared format and its pages/paragraphs)
    remote,      \* what the remote text-generation service was sent and answered
    aiCalls,     \* number of client.chat.completions.create calls in this request
    ret,         \* outcome of the handler: a returned value or a raised exception
    response,    \* what the caller receives
    data,        \* AnalysisResult body of the render request
    skill_rows,  \* skill_rows as built by the grouping loop of download_report
    elements     \* the list of blocks download_report has appended

vars == <<pc, route, filename, file_bytes, remote, aiCalls, ret, response,
          data, skill_rows, elements>>

None == "None"

(***************************************************************************)
(* Bounds of the model.                                                    *)
(***************************************************************************)
MaxParts == 2    \* pages of a PDF / paragraphs of a DOCX
MaxList == 2     \* entries of strengths, weaknesses, suggestions
MaxSkills == 7   \* entries of skills

(***************************************************************************)
(* str operations used by the program.                                     *)
(***************************************************************************)
RECURSIVE Cat(_)
\* text = ""; for page in doc: text += page.get_text()
Cat(parts) ==
    IF parts = <<>> THEN <<>> ELSE Head(parts) \o Cat(Tail(parts))

RECURSIVE Join(_, _)
\* sep.join(parts)
Join(sep, parts) ==
    IF parts = <<>> THEN <<>>
    ELSE IF Len(parts) = 1 THEN Head(parts)
    ELSE Head(parts) \o sep \o Join(sep, Tail(parts))

LowerChar(c) ==
    CASE c = "P" -> "p"
      [] c = "D" -> "d"
      [] c = "F" -> "f"
      [] c = "O" -> "o"
      [] c = "C" -> "c"
      [] c = "X" -> "x"
      [] c = "T" -> "t"
      [] c = "A" -> "a"
      [] OTHER -> c

\* str.lower()
lower(s) == [i \in 1..Len(s) |-> LowerChar(s[i])]

\* str.endswith(suffix)
endswith(s, suffix) ==
    /\ Len(s) >= Len(suffix)
    /\ SubSeq(s, Len(s) - Len(suffix) + 1, Len(s)) = suffix

IsSpace(c) == c \in {" ", "\n", "\t"}

RECURSIVE lstrip(_)
lstrip(s) ==
    IF s # <<>> /\ IsSpace(Head(s)) THEN lstrip(Tail(s)) ELSE s

RECURSIVE rstrip(_)
rstrip(s) ==
    IF s # <<>> /\ IsSpace(s[Len(s)]) THEN rstrip(SubSeq(s, 1, Len(s) - 1)) ELSE s

\* str.strip()
strip(s) == rstrip(lstrip(s))

\* str.replace(old, new) for a one-character old; new is written as one atom
replace(s, old, new) == [i \in 1..Len(s) |-> IF s[i] = old THEN new ELSE s[i]]

Digits == <<"0", "1", "2", "3", "4", "5", "6", "7", "8", "9">>

DigitVal(c) == CHOOSE d \in 0..9 : Digits[d + 1] = c

IsNumeral(s) == s # <<>> /\ \A i \in 1..Len(s) : \E d \in 1..10 : Digits[d] = s[i]

RECURSIVE StrToInt(_)
\* int("85")
StrToInt(s) ==
    IF s = <<>> THEN 0
    ELSE 10 * StrToInt(SubSeq(s, 1, Len(s) - 1)) + DigitVal(s[Len(s)])

RECURSIVE NatToStr(_)
NatToStr(n) ==
    IF n < 10 THEN <<Digits[n + 1]>>
    ELSE NatToStr(n \div 10) \o <<Digits[(n % 10) + 1]>>

\* str(n), as the f-string formats data.score
IntToStr(n) == IF n < 0 THEN <<"-">> \o NatToStr(0 - n) ELSE NatToStr(n)

(***************************************************************************)
(* Outcomes of a call: a value or a raised exception.                      *)
(***************************************************************************)
Ok(v) == [ok |-> TRUE, val |-> v]
Err(e) == [ok |-> FALSE, exc |-> e]

(***************************************************************************)
(* JSON values, as json.loads produces them.                               *)
(***************************************************************************)
JInt(n) == [t |-> "int", int |-> n]
JStr(s) == [t |-> "str", str |-> s]
JList(l) == [t |-> "list", list |-> l]
JNull == [t |-> "null"]
JObject(f) == [t |-> "object", object |-> f]

\* message.content of a model response: JSON text (with the value it denotes),
\* text that is not JSON, or no content at all (Python None).
JsonText(value) == [kind |-> "json", value |-> value]
NotJson == [kind |-> "text"]
NoContent == [kind |-> "none"]

\* a json.loads that reads text that is not JSON as the empty object
json_loads_lenient(content) ==
    CASE content.kind = "json" -> Ok(content.value)
      [] content.kind = "text" -> Ok(JObject([k \in {} |-> JNull]))
      [] OTHER -> Err("TypeError")

\* json.loads(content): the value JSON text denotes, JSONDecodeError on text
\* that is not JSON, TypeError on None
json_loads(content) ==
    CASE content.kind = "json" -> Ok(content.value)
      [] content.kind = "text" -> Err("JSONDecodeError")
      [] OTHER -> Err("TypeError")

(***************************************************************************)
(* class AnalysisResult(BaseModel): pydantic's validation of each field.   *)
(* pydantic validates in its default (lax) mode: a str holding a decimal   *)
(* numeral is accepted for an int field and converted.                     *)
(***************************************************************************)
RequiredKeys == {"score", "skills", "summary", "weaknesses", "suggestions", "improvedResume"}
OptionalKeys == {"strengths", "sections"}

\* score: int
IntField(j) ==
    CASE j.t = "int" -> Ok(j.int)
      [] j.t = "str" -> IF IsNumeral(j.str) THEN Ok(StrToInt(j.str)) ELSE Err("int_parsing")
      [] OTHER -> Err("int_type")

\* summary: str, improvedResume: str
StrField(j) ==
    IF j.t = "str" THEN Ok(j.str) ELSE Err("string_type")

\* skills, weaknesses, suggestions, strengths: list[str]
ListStrField(j) ==
    IF j.t = "list" /\ \A i \in 1..Len(j.list) : j.list[i].t = "str"
    THEN Ok([i \in 1..Len(j.list) |-> j.list[i].str])
    ELSE Err("list_type")

\* sections: list
ListField(j) ==
    IF j.t = "list" THEN Ok(j.list) ELSE Err("list_type")

FieldValidator(k, j) ==
    CASE k = "score" -> IntField(j)
      [] k \in {"summary", "improvedResume"} -> StrField(j)
      [] k = "sections" -> ListField(j)
      [] OTHER -> ListStrField(j)

\* AnalysisResult over the unpacked mapping: ValidationError when a required
\* key is missing or a present field does not validate; strengths and
\* sections default to [] when absent; other keys are ignored.
AnalysisResult(obj) ==
    LET present == DOMAIN obj
        bad == {k \in RequiredKeys : k \notin present}
               \cup {k \in (RequiredKeys \cup OptionalKeys) \cap present :
                        ~FieldValidator(k, obj[k]).ok}
    IN  IF bad # {} THEN Err("ValidationError")
        ELSE Ok([k \in RequiredKeys \cup OptionalKeys |->
                    IF k \in present THEN FieldValidator(k, obj[k]).val ELSE <<>>])

(***************************************************************************)
(* Text extraction.                                                        *)
(***************************************************************************)
\* fitz.open raises on bytes that are not a PDF; page texts are concatenated
extract_text_from_pdf(fb) ==
    IF fb.format = "pdf" THEN Ok(Cat(fb.parts)) ELSE Err("FileDataError")

\* docx.Document raises on bytes that are not a DOCX; paragraphs joined by "\n"
extract_text_from_docx(fb) ==
    IF fb.format = "docx" THEN Ok(Join(<<"\n">>, fb.parts)) ELSE Err("BadZipFile")

(***************************************************************************)
(* analyze_with_ai: one call of the remote service, json.loads of the      *)
(* answer's content, AnalysisResult over the parsed mapping.  Nothing is   *)
(* caught.                                                                 *)
(***************************************************************************)
\* client.chat.completions.create(...) followed by response.choices[0].message.content
remote_content(answer) ==
    CASE answer.kind = "network_error" -> Err("APIConnectionError")
      [] answer.kind = "http_error" -> Err("APIStatusError")
      [] answer.kind = "no_choices" -> Err("IndexError")
      [] OTHER -> Ok(answer.content)

analyze_with_ai(resume_text, answer) ==
    LET content == remote_content(answer) IN
    IF ~content.ok THEN content
    ELSE LET parsed == json_loads(content.val) IN
         IF ~parsed.ok THEN parsed
         ELSE IF parsed.val.t # "object" THEN Err("TypeError")
         ELSE AnalysisResult(parsed.val.object)

(***************************************************************************)
(* The handlers' outcomes and the responses the caller receives.           *)
(***************************************************************************)
Return(type, value) == [kind |-> "return", type |-> type, value |-> value]
Raise(exc) == [kind |-> "raise", exc |-> exc]

UnsupportedMsg == "Only PDF or DOCX files are supported"
NoTextMsg == "Could not read text from file"

\* {"error": msg}
ErrorDict(msg) == [error |-> msg]

\* An unhandled exception of a handler: the server's plain 500 answer
InternalServerError ==
    [status |-> 500, media |-> "text/plain", body |-> [detail |-> "Internal Server Error"]]

JsonResponse(value) == [status |-> 200, media |-> "application/json", body |-> value]

\* StreamingResponse(buffer, media_type="application/pdf", ...)
StreamingResponse(blocks) ==
    [status |-> 200, media |-> "application/pdf", body |-> [blocks |-> blocks]]

\* A dict as the JSON object the response model is validated against
DictAsObject(d) == [k \in DOMAIN d |-> JStr(<<d[k]>>)]

\* response_model=AnalysisResult: the returned value is validated against the
\* model before it is sent; an AnalysisResult instance passes, a dict is
\* validated field by field, and a value that fails raises
\* ResponseValidationError inside the framework.
response_model(r) ==
    IF r.type = "AnalysisResult" THEN Ok(r.value)
    ELSE LET checked == AnalysisResult(DictAsObject(r.value)) IN
         IF checked.ok THEN checked ELSE Err("ResponseValidationError")

\* What the caller of POST /analyze-resume receives for a handler outcome
analyze_response(r) ==
    IF r.kind = "raise" THEN InternalServerError
    ELSE LET sent == response_model(r) IN
         IF sent.ok THEN JsonResponse(sent.val) ELSE InternalServerError

\* What the caller of POST /download-report receives for a handler outcome
report_response(r) ==
    IF r.kind = "raise" THEN InternalServerError ELSE r.value

dot_pdf == <<".", "p", "d", "f">>
dot_docx == <<".", "d", "o", "c", "x">>

\* The body of analyze_resume for a remote answer (consulted only if the
\* remote service is called): <<outcome, number of remote calls>>
analyze_resume_body(name, fb, answer) ==
    LET fname == lower(name)
        extracted == IF endswith(fname, dot_pdf) THEN extract_text_from_pdf(fb)
                     ELSE extract_text_from_docx(fb)
    IN  IF ~(endswith(fname, dot_pdf) \/ endswith(fname, dot_docx))
        THEN <<Return("dict", ErrorDict(UnsupportedMsg)), 0>>
        ELSE IF ~extracted.ok THEN <<Raise(extracted.exc), 0>>
        ELSE IF strip(extracted.val) = <<>>
        THEN <<Return("dict", ErrorDict(NoTextMsg)), 0>>
        ELSE LET result == analyze_with_ai(extracted.val, answer) IN
             IF result.ok THEN <<Return("AnalysisResult", result.val), 1>>
             ELSE <<Raise(result.exc), 1>>

(***************************************************************************)
(* Inputs.                                                                 *)
(***************************************************************************)
SeqsUpTo(S, n) == UNION {[1..k -> S] : k \in 0..n}

Filenames ==
    { <<"a", ".", "p", "d", "f">>,
      <<"A", ".", "P", "D", "F">>,
      <<"a", ".", "d", "o", "c", "x">>,
      <<"a", ".", "D", "o", "c", "X">>,
      <<"a", ".", "t", "x", "t">>,
      <<"a", ".", "d", "o", "c">>,
      <<"a", ".", "p", "d", "f", ".", "t", "x", "t">>,
      <<"p", "d", "f">>,
      <<>> }

PartTexts == { <<>>, <<" ", "\n">>, <<"J">> }

FileBytes ==
    {[format |-> f, parts |-> p] : f \in {"pdf", "docx"}, p \in SeqsUpTo(PartTexts, MaxParts)}
    \cup {[format |-> "other", parts |-> <<>>]}

BaseObject ==
    [score |-> JInt(82),
     skills |-> JList(<<JStr(<<"P", "y">>), JStr(<<"G", "o">>)>>),
     summary |-> JStr(<<"o", "k">>),
     weaknesses |-> JList(<<JStr(<<"w">>)>>),
     suggestions |-> JList(<<JStr(<<"g">>)>>),
     improvedResume |-> JStr(<<"r">>),
     strengths |-> JList(<<JStr(<<"s">>)>>),
     sections |-> JList(<<>>)]

Without(obj, k) == [x \in DOMAIN obj \ {k} |-> obj[x]]
With(obj, k, j) == [x \in DOMAIN obj \cup {k} |-> IF x = k THEN j ELSE obj[x]]

\* Values a model may put in a field.  Only values that every pydantic
\* release treats alike are drawn (no int for a str field, no float).
FieldValues(k) ==
    CASE k = "score" ->
            {JInt(0), JInt(100), JInt(150), JInt(0 - 5), JStr(<<"8", "5">>),
             JStr(<<"h", "i">>), JNull, JList(<<>>)}
      [] k \in {"summary", "improvedResume"} ->
            {JStr(<<>>), JStr(<<"x", "\n", "y">>), JNull, JList(<<>>)}
      [] k = "sections" -> {JList(<<JInt(1)>>), JNull}
      [] OTHER -> {JList(<<>>), JStr(<<"x">>), JNull}

ModelObjects ==
    {BaseObject, With(BaseObject, "extra", JInt(1))}
    \cup {Without(BaseObject, k) : k \in DOMAIN BaseObject}
    \cup UNION {{With(BaseObject, k, j) : j \in FieldValues(k)} : k \in DOMAIN BaseObject}

RemoteFailures ==
    {[kind |-> "network_error"], [kind |-> "http_error", status |-> 500],
     [kind |-> "no_choices"], [kind |-> "ok", content |-> NoContent]}

RemoteAnswers ==
    RemoteFailures
    \cup {[kind |-> "ok", content |-> NotJson],
          [kind |-> "ok", content |-> JsonText(JList(<<>>))]}
    \cup {[kind |-> "ok", content |-> JsonText(JObject(o))] : o \in ModelObjects}

(***************************************************************************)
(* download_report: the blocks appended to elements.                       *)
(***************************************************************************)
Paragraph(text, style) == [kind |-> "Paragraph", text |-> text, style |-> style]
Spacer(height) == [kind |-> "Spacer", height |-> height]   \* hundredths of an inch
PageBreak == [kind |-> "PageBreak"]

\* Table(data, ...): reportlab refuses a table without a row
\* ("must have at least a row and column") by raising ValueError
Table(rows) ==
    IF rows = <<>> THEN Err("ValueError")
    ELSE Ok([kind |-> "Table", rows |-> rows])

BadgesPerRow == 3

\* the bullet character and the space that start an entry line
bullet == "(bullet) "
\* the markup of an explicit line break
line_break == "<br/>"

\* the badge Paragraph built for one skill
badge(skill) ==
    Paragraph(<<"<para alignment='center'><b>">> \o skill \o <<"</b></para>">>, "badge")

RECURSIVE grouping_loop(_, _, _, _)
\* for i, skill in enumerate(data.skills): row.append(badge); a full row is
\* appended to skill_rows and a new row started; after the loop a non-empty
\* row is appended
grouping_loop(skills, i, row, rows) ==
    IF i > Len(skills)
    THEN IF row # <<>> THEN Append(rows, row) ELSE rows
    ELSE LET row2 == Append(row, badge(skills[i])) IN
         IF Len(row2) = BadgesPerRow
         THEN grouping_loop(skills, i + 1, <<>>, Append(rows, row2))
         ELSE grouping_loop(skills, i + 1, row2, rows)

RECURSIVE grouping_loop_no_tail(_, _, _, _)
\* the loop without the trailing "if row: skill_rows.append(row)"
grouping_loop_no_tail(skills, i, row, rows) ==
    IF i > Len(skills)
    THEN rows
    ELSE LET row2 == Append(row, badge(skills[i])) IN
         IF Len(row2) = BadgesPerRow
         THEN grouping_loop_no_tail(skills, i + 1, <<>>, Append(rows, row2))
         ELSE grouping_loop_no_tail(skills, i + 1, row2, rows)

build_skill_rows_no_tail(skills) == grouping_loop_no_tail(skills, 1, <<>>, <<>>)

\* skill_rows = []; row = []; the loop; the trailing append
build_skill_rows(skills) == grouping_loop(skills, 1, <<>>, <<>>)

\* one bullet Paragraph per entry: Paragraph(f"(bullet) {s}", bullet_style)
bullets(entries) ==
    [i \in 1..Len(entries) |-> Paragraph(<<bullet>> \o entries[i], "bullet_style")]

title_block ==
    <<Paragraph(<<"Resume Analysis Report">>, "title_style"), Spacer(35)>>

score_panel(score) ==
    <<<<Paragraph(<<"<b>Your Resume Score: ">> \o IntToStr(score) \o <<"/100</b>">>,
                  "header_style")>>>>

\* the centred rule under the score panel ("(rule)" stands for its dashes)
divider_block ==
    <<Paragraph(<<"<para alignment='center'><font color='#C9A227'>(rule)</font></para>">>,
                "body_style"),
      Spacer(20)>>

summary_block(d) ==
    <<Paragraph(<<"Professional Summary">>, "header_style"), Spacer(10),
      Paragraph(replace(d.summary, "\n", line_break), "body_style"), Spacer(25)>>

strengths_block_always(d) ==
    <<Paragraph(<<"Key Strengths">>, "header_style"), Spacer(15)>>
    \o bullets(d.strengths) \o <<Spacer(30)>>

\* if data.strengths: heading, bullets, spacer
strengths_block(d) ==
    IF d.strengths # <<>>
    THEN <<Paragraph(<<"Key Strengths">>, "header_style"), Spacer(15)>>
         \o bullets(d.strengths) \o <<Spacer(30)>>
    ELSE <<>>

weaknesses_block(d) ==
    <<Paragraph(<<"Areas for Improvement">>, "header_style"), Spacer(15)>>
    \o bullets(d.weaknesses) \o <<Spacer(30)>>

skills_heading ==
    <<Paragraph(<<"Detected Skills">>, "header_style"), Spacer(15)>>

suggestions_block(d) ==
    <<Paragraph(<<"Suggestions for Improvement">>, "header_style"), Spacer(15)>>
    \o bullets(d.suggestions) \o <<Spacer(40)>>

improved_block(d) ==
    <<PageBreak, Paragraph(<<"AI-Optimized Resume">>, "title_style"), Spacer(30),
      Paragraph(replace(d.improvedResume, "\n", line_break), "body_style")>>

\* The body of download_report: <<outcome, skill_rows, elements>>.  The
\* score panel always has its one row; the skill table is built from
\* skill_rows, and its constructor raises when skill_rows is empty.
download_report_body(d) ==
    LET panel == Table(score_panel(d.score))
        rows == build_skill_rows(d.skills)
        skill_table == Table(rows)
        upto_skills == title_block \o <<panel.val, Spacer(30)>> \o divider_block
                       \o summary_block(d) \o strengths_block(d)
                       \o weaknesses_block(d) \o skills_heading
        all == upto_skills \o <<skill_table.val, Spacer(30)>>
               \o suggestions_block(d) \o improved_block(d)
    IN  IF ~skill_table.ok THEN <<Raise(skill_table.exc), rows, upto_skills>>
        ELSE <<Return("StreamingResponse", StreamingResponse(all)), rows, all>>

SkillPool == << <<"P", "y">>, <<"G", "o">>, <<"C">> >>

\* The first n skills of the pool repeated
SkillList(n) == [i \in 1..n |-> SkillPool[((i - 1) % Len(SkillPool)) + 1]]

StrengthTexts == { <<"s", "\n", "t">> }
WeaknessTexts == { <<"w">>, <<"w", "\n", "v">> }
SuggestionTexts == { <<"g", "\n", "h">> }
SummaryTexts == { <<"s">>, <<"s", "\n", "t">> }
ResumeTexts == { <<"r">>, <<"r", "\n", "q", "\n">> }

\* Request bodies of POST /download-report that pass AnalysisResult
Records ==
    {[score |-> 82, skills |-> SkillList(n), summary |-> sm, weaknesses |-> w,
      suggestions |-> g, improvedResume |-> ir, strengths |-> st, sections |-> <<>>] :
        n \in 0..MaxSkills, sm \in SummaryTexts, w \in SeqsUpTo(WeaknessTexts, MaxList),
        g \in SeqsUpTo(SuggestionTexts, MaxList), ir \in ResumeTexts,
        st \in SeqsUpTo(StrengthTexts, MaxList)}

(***************************************************************************)
(* The state machine.                                                      *)
(***************************************************************************)
Init ==
    /\ pc = "idle"
    /\ route = "none"
    /\ filename = None
    /\ file_bytes = None
    /\ remote = None
    /\ aiCalls = 0
    /\ ret = None
    /\ response = None
    /\ data = None
    /\ skill_rows = None
    /\ elements = None

\* POST /analyze-resume arrives with an uploaded file
ReceiveUpload ==
    /\ pc = "idle"
    /\ \E name \in Filenames, fb \in FileBytes :
         /\ filename' = name
         /\ file_bytes' = fb
    /\ pc' = "analyze_resume"
    /\ route' = "analyze"
    /\ UNCHANGED <<remote, aiCalls, ret, response, data, skill_rows, elements>>

\* the handler analyze_resume, with the remote service's answer if it is called
analyze_resume ==
    /\ pc = "analyze_resume"
    /\ \E answer \in RemoteAnswers :
         LET out == analyze_resume_body(filename, file_bytes, answer) IN
           /\ ret' = out[1]
           /\ aiCalls' = aiCalls + out[2]
           /\ remote' = IF out[2] = 1 THEN answer ELSE None
    /\ pc' = "returned"
    /\ UNCHANGED <<route, filename, file_bytes, response, data, skill_rows, elements>>

\* POST /download-report arrives with a body that validates as AnalysisResult
ReceiveReport ==
    /\ pc = "idle"
    /\ \E d \in Records : data' = d
    /\ pc' = "download_report"
    /\ route' = "render"
    /\ UNCHANGED <<filename, file_bytes, remote, aiCalls, ret, response, skill_rows, elements>>

\* the handler download_report
download_report ==
    /\ pc = "download_report"
    /\ LET out == download_report_body(data) IN
         /\ ret' = out[1]
         /\ skill_rows' = out[2]
         /\ elements' = out[3]
    /\ pc' = "returned"
    /\ UNCHANGED <<route, filename, file_bytes, remote, aiCalls, response, data>>

\* the framework answers the caller from the handler's outcome
send_response ==
    /\ pc = "returned"
    /\ response' = IF route = "analyze" THEN analyze_response(ret) ELSE report_response(ret)
    /\ pc' = "responded"
    /\ UNCHANGED <<route, filename, file_bytes, remote, aiCalls, ret, data, skill_rows, elements>>

\* the request is over; nothing of it is kept
Finish ==
    /\ pc = "responded"
    /\ pc' = "idle"
    /\ route' = "none"
    /\ filename' = None
    /\ file_bytes' = None
    /\ remote' = None
    /\ aiCalls' = 0
    /\ ret' = None
    /\ response' = None
    /\ data' = None
    /\ skill_rows' = None
    /\ elements' = None

Next ==
    \/ ReceiveUpload
    \/ analyze_resume
    \/ ReceiveReport
    \/ download_report
    \/ send_response
    \/ Finish

Spec == Init /\ [][Next]_vars

(***************************************************************************)
(* Vocabulary of the properties.                                           *)
(***************************************************************************)
AnalyzeAnswered == route = "analyze" /\ pc = "responded"
AnalyzeReturned == route = "analyze" /\ pc \in {"returned", "responded"}
RenderReturned == route = "render" /\ pc \in {"returned", "responded"}

PdfNames == { <<"a", ".", "p", "d", "f">>, <<"A", ".", "P", "D", "F">> }
DocxNames == { <<"a", ".", "d", "o", "c", "x">>, <<"a", ".", "D", "o", "c", "X">> }
UnsupportedNames == Filenames \ (PdfNames \cup DocxNames)

\* a structured error payload carrying the message msg
IsErrorPayload(resp, msg) ==
    /\ resp.media = "application/json"
    /\ "error" \in DOMAIN resp.body
    /\ resp.body.error = msg

\* a structured error payload, whatever its message
IsStructuredError(resp) ==
    /\ resp.media = "application/json"
    /\ "error" \in DOMAIN resp.body

\* the response carries an AnalysisRecord
CarriesRecord(resp) ==
    /\ resp.media = "application/json"
    /\ "score" \in DOMAIN resp.body

RemoteCalledAndFailed == aiCalls = 1 /\ remote \in RemoteFailures

Http500 == [kind |-> "http_error", status |-> 500]

\* C1 (handler level): for an unsupported name the handler returns the error
\* dict and the remote service is not called.
UnsupportedHandlerReturnsDict ==
    (AnalyzeReturned /\ filename \in UnsupportedNames)
        => (ret = Return("dict", ErrorDict(UnsupportedMsg)) /\ aiCalls = 0 /\ remote = None)

\* C1: for every upload whose lower-cased filename ends in neither ".pdf" nor
\* ".docx", the caller receives an input-rejection error and the remote
\* service is never invoked during the request.
UnsupportedSuffixRejected ==
    (AnalyzeAnswered /\ filename \in UnsupportedNames)
        => (IsErrorPayload(response, UnsupportedMsg) /\ aiCalls = 0)

\* C2: whenever the remote call made by the analyze operation fails, the
\* caller receives a single "analysis unavailable" structured error and no
\* record, complete or partial, is returned.
RemoteFailureIsStructuredError ==
    (AnalyzeAnswered /\ RemoteCalledAndFailed)
        => (IsStructuredError(response) /\ ~CarriesRecord(response) /\ ret.kind = "raise")

\* C2 (what the code does): a failed remote call ends the handler with the
\* uncaught exception and the caller receives the plain 500 answer.
RemoteFailureIsInternalError ==
    (AnalyzeAnswered /\ RemoteCalledAndFailed)
        => (ret.kind = "raise" /\ response = InternalServerError)

DeclaredType(k) ==
    CASE k = "score" -> "int"
      [] k \in {"summary", "improvedResume"} -> "str"
      [] OTHER -> "list"

\* the field holds a value of its declared type
HasDeclaredType(k, j) ==
    /\ j.t = DeclaredType(k)
    /\ (k \in RequiredKeys \cup {"strengths"} /\ j.t = "list")
          => \A i \in 1..Len(j.list) : j.list[i].t = "str"

\* the value of a well-typed field, as it stands in the parsed object
PlainValue(k, j) ==
    CASE j.t = "int" -> j.int
      [] j.t = "str" -> j.str
      [] k = "sections" -> j.list
      [] OTHER -> [i \in 1..Len(j.list) |-> j.list[i].str]

ParsedAnObject ==
    /\ AnalyzeReturned
    /\ aiCalls = 1
    /\ remote.kind = "ok"
    /\ remote.content.kind = "json"
    /\ remote.content.value.t = "object"

\* C3: for every JSON object parsed from the model response a record is
\* constructed only if each required key is present with its declared type;
\* a missing required key or a wrongly typed field is rejected with a schema
\* validation failure, never defaulted or coerced; the only defaulting is
\* that an absent strengths or sections becomes the empty sequence.
SchemaIsStrict ==
    ParsedAnObject =>
        LET obj == remote.content.value.object
            wellTyped ==
                /\ \A k \in RequiredKeys : k \in DOMAIN obj
                /\ \A k \in (RequiredKeys \cup OptionalKeys) \cap DOMAIN obj :
                      HasDeclaredType(k, obj[k])
        IN  /\ ret.kind = "return" => wellTyped
            /\ ~wellTyped => ret = Raise("ValidationError")
            /\ ret.kind = "return" =>
                  \A k \in RequiredKeys \cup OptionalKeys :
                      ret.value[k] = IF k \in DOMAIN obj THEN PlainValue(k, obj[k]) ELSE <<>>

\* C4: every record the analyze operation returns as a success has
\* 0 <= score <= 100 and non-empty summary and improvedResume.
ReturnedRecordIsValid ==
    (AnalyzeAnswered /\ response.status = 200)
        => /\ response.body.score \in 0..100
           /\ response.body.summary # <<>>
           /\ response.body.improvedResume # <<>>

ExtractionSucceeds ==
    \/ filename \in PdfNames /\ file_bytes.format = "pdf"
    \/ filename \in DocxNames /\ file_bytes.format = "docx"

WhitespaceOnly ==
    \A i \in 1..Len(file_bytes.parts) :
        \A j \in 1..Len(file_bytes.parts[i]) : file_bytes.parts[i][j] \in {" ", "\n"}

\* C5 (handler level): whitespace-only text makes the handler return the
\* "could not read text" dict without calling the remote service.
NoTextHandlerReturnsDict ==
    (AnalyzeReturned /\ ExtractionSucceeds /\ WhitespaceOnly)
        => (ret = Return("dict", ErrorDict(NoTextMsg)) /\ aiCalls = 0 /\ remote = None)

\* C5: when a supported file is extracted without an exception but its text
\* is only whitespace, the caller receives a "no extractable text" error that
\* differs from the outcome of extraction throwing, and the remote service
\* is not invoked.
NoTextReportedDistinctly ==
    (AnalyzeAnswered /\ ExtractionSucceeds /\ WhitespaceOnly)
        => /\ IsErrorPayload(response, NoTextMsg)
           /\ response # analyze_response(Raise("FileDataError"))
           /\ aiCalls = 0

AnsweredNotJson ==
    /\ AnalyzeAnswered
    /\ aiCalls = 1
    /\ remote.kind = "ok"
    /\ remote.content.kind = "text"

\* the handler's outcome and the caller's response had the remote service
\* answered this same upload with HTTP 500
OutcomeOnHttp500 == analyze_resume_body(filename, file_bytes, Http500)[1]
ResponseOnHttp500 == analyze_response(OutcomeOnHttp500)

HandedToBuilder == RenderReturned /\ ret.kind = "return"

IsHeading(b) == b.kind = "Paragraph" /\ b.style \in {"title_style", "header_style"}
IsLandmark(b) == b.kind \in {"Table", "PageBreak"} \/ IsHeading(b)
IsBullet(b) == b.kind = "Paragraph" /\ b.style = "bullet_style"

IsScorePanel(b) ==
    /\ b.kind = "Table"
    /\ Len(b.rows) = 1
    /\ Len(b.rows[1]) = 1
    /\ b.rows[1][1].text[1] = "<b>Your Resume Score: "

Label(b) ==
    CASE b.kind = "PageBreak" -> "page break"
      [] b.kind = "Table" -> IF IsScorePanel(b) THEN "score panel" ELSE "skill table"
      [] OTHER -> b.text[1]

\* the headings, tables and page breaks of a block list, in order
Outline(blocks) ==
    LET marks == SelectSeq(blocks, IsLandmark)
    IN  [i \in 1..Len(marks) |-> Label(marks[i])]

ExpectedOutline(d) ==
    <<"Resume Analysis Report", "score panel", "Professional Summary">>
    \o (IF d.strengths # <<>> THEN <<"Key Strengths">> ELSE <<>>)
    \o <<"Areas for Improvement", "Detected Skills", "skill table",
         "Suggestions for Improvement", "page break", "AI-Optimized Resume">>

HeadingIndex(h) ==
    CHOOSE i \in 1..Len(elements) : elements[i] = Paragraph(<<h>>, "header_style")

\* the bullet lines between the heading h and the next landmark
EntriesUnder(h) ==
    LET first == HeadingIndex(h)
        stop == CHOOSE j \in (first + 1)..Len(elements) :
                    /\ IsLandmark(elements[j])
                    /\ \A m \in (first + 1)..(j - 1) : ~IsLandmark(elements[m])
        lines == SelectSeq(SubSeq(elements, first + 1, stop - 1), IsBullet)
    IN  [i \in 1..Len(lines) |-> lines[i].text]

BulletLines(entries) == [i \in 1..Len(entries) |-> <<bullet>> \o entries[i]]

\* the skill a badge shows
SkillOf(b) == SubSeq(b.text, 2, Len(b.text) - 1)

ShownSkills(rows) ==
    LET flat == Cat(rows) IN [i \in 1..Len(flat) |-> SkillOf(flat[i])]

\* C8: each of skills, strengths, weaknesses and suggestions is rendered as
\* one entry per element in input order; with such a list empty (other than
\* strengths) rendering still completes and the section's header has zero
\* entries beneath it.
ListsRenderedEntryPerElement ==
    RenderReturned =>
        /\ ret.kind = "return"
        /\ EntriesUnder("Areas for Improvement") = BulletLines(data.weaknesses)
        /\ EntriesUnder("Suggestions for Improvement") = BulletLines(data.suggestions)
        /\ data.strengths # <<>> => EntriesUnder("Key Strengths") = BulletLines(data.strengths)
        /\ ShownSkills(skill_rows) = data.skills

\* what a text with every newline turned into an explicit line break looks like
WithLineBreaks(text) ==
    [i \in 1..Len(text) |-> IF text[i] = "\n" THEN "<br/>" ELSE text[i]]

BrokenBulletLines(entries) ==
    [i \in 1..Len(entries) |-> <<bullet>> \o WithLineBreaks(entries[i])]

\* C9: every text value with an embedded newline is rendered with each
\* newline turned into an explicit line break: the summary, the
\* improved-resume body and each entry of strengths, weaknesses and
\* suggestions.
NewlinesBecomeLineBreaks ==
    HandedToBuilder =>
        /\ elements[HeadingIndex("Professional Summary") + 2].text = WithLineBreaks(data.summary)
        /\ elements[Len(elements)].text = WithLineBreaks(data.improvedResume)
        /\ EntriesUnder("Areas for Improvement") = BrokenBulletLines(data.weaknesses)
        /\ EntriesUnder("Suggestions for Improvement") = BrokenBulletLines(data.suggestions)
        /\ data.strengths # <<>> =>
              EntriesUnder("Key Strengths") = BrokenBulletLines(data.strengths)

\* C9 (what the code does): the summary and the improved-resume body have
\* their newlines turned into line breaks; a list entry keeps its newline.
NewlinesBrokenInSummaryAndResume ==
    HandedToBuilder =>
        /\ elements[HeadingIndex("Professional Summary") + 2].text = WithLineBreaks(data.summary)
        /\ elements[Len(elements)].text = WithLineBreaks(data.improvedResume)
        /\ EntriesUnder("Areas for Improvement") = BulletLines(data.weaknesses)

\* C10: the badge rows, concatenated in row order, are the skills in input
\* order; there are ceil(n/3) rows, every row but the last holds 3 badges,
\* the last holds 1 to 3, and no row is empty.
SkillRowsPartitionSkills ==
    RenderReturned =>
        LET n == Len(data.skills)
            r == Len(skill_rows)
        IN  /\ ShownSkills(skill_rows) = data.skills
            /\ r = (n + 2) \div 3
            /\ \A i \in 1..(r - 1) : Len(skill_rows[i]) = 3
            /\ r > 0 => Len(skill_rows[r]) \in 1..3
            /\ \A i \in 1..r : skill_rows[i] # <<>>

\* C10 witness: seven skills grouped into rows, the last holding one badge
SevenSkillsGrouped ==
    /\ RenderReturned
    /\ Len(data.skills) = 7
    /\ Len(skill_rows) = 3
    /\ Len(skill_rows[3]) = 1

====
